---- MODULE Spec2Model ----
(***************************************************************************)
(* A model of the memoization engine of sindresorhus/memoize.              *)
(*                                                                         *)
(* Spec    src/index.ts:1-241   memoize / memoized / memoizeClear, the     *)
(*                              timer-driven (setTimeout) variant          *)
(* SpecAsync  the same code with targets that return promises             *)
(* SpecWrap   the same code with every kind of fixed maxAge and direct    *)
(*            calls of the target                                         *)
(* SpecTwo    the same code with two wrappers of one target               *)
(* SpecNested the same code with a wrapper of a wrapper, under fair       *)
(*            timers                                                      *)
(* SpecPure   the same code with a deterministic target                   *)
(* SpecFalsy  the same code with a target returning falsy values         *)
(* SpecPrototype  the same code with one wrapper called on two objects    *)
(* SpecDecorator  src/index.ts:187-219  memoizeDecorator                  *)
(* SpecLater, SpecComputed  the same code extended by memoizeIsCached     *)
(*            and by maxAge functions, which the sources only test        *)
(* SpecJs  src/index.js:45-105  mem / memoized / mem.clear, the variant    *)
(*                              with the cachePromiseRejection option      *)
(*                                                                         *)
(* JavaScript values are tagged records, so that values of different       *)
(* types never compare equal (Map uses SameValueZero).                     *)
(***************************************************************************)
EXTENDS Integers, Sequences, FiniteSets, TLC

\* ------------------------------------------------------------------ bounds

\* Date.now() runs from 0 to MaxTime.
MaxTime == 2

\* The target function is invoked at most MaxCalls times.
MaxCalls == 3

\* ------------------------------------------------------------ JS values

Undefined == [t |-> "undefined", v |-> ""]

Str(s) == [t |-> "string", v |-> s]

\* The largest integer one limb of a number holds (2^31 - 1).
Limb == 2147483647

\* A JavaScript number: a finite integer hi * 2^31 + v (a double holds
\* integers beyond 32 bits exactly), Number.POSITIVE_INFINITY, or NaN.
Num(n) == [inf |-> FALSE, nan |-> FALSE, hi |-> 0, v |-> n]

POSITIVE_INFINITY == [inf |-> TRUE, nan |-> FALSE, hi |-> 0, v |-> 0]

NaN == [inf |-> FALSE, nan |-> TRUE, hi |-> 0, v |-> 0]

\* a < b on JavaScript numbers: every comparison with NaN is false.
Less(a, b) ==
    IF a.nan \/ b.nan THEN FALSE
    ELSE IF a.inf THEN FALSE
    ELSE IF b.inf THEN TRUE
    ELSE a.hi < b.hi \/ (a.hi = b.hi /\ a.v < b.v)

\* a + b on JavaScript numbers
Plus(a, b) ==
    IF a.nan \/ b.nan THEN NaN
    ELSE IF a.inf \/ b.inf THEN POSITIVE_INFINITY
    ELSE IF a.v >= 0 /\ b.v >= 0 /\ a.v > Limb - b.v
    THEN [inf |-> FALSE, nan |-> FALSE, hi |-> a.hi + b.hi + 1,
          v |-> a.v - (Limb - b.v) - 1]
    ELSE [inf |-> FALSE, nan |-> FALSE, hi |-> a.hi + b.hi, v |-> a.v + b.v]

\* The maxAge option: absent, or a number.
NoMaxAge == [t |-> "undefined", n |-> Num(0)]

MaxAge(n) == [t |-> "number", n |-> n]

\* The argument lists the wrapped functions are called with.
ArgLists ==
    { <<>>, <<Undefined>>, <<Str("foo")>>, <<Str("foo"), Str("bar")>> }

\* JSON.stringify of one element of an array: undefined becomes null.
JSONelement(x) ==
    IF x.t = "undefined" THEN "null" ELSE "\"" \o x.v \o "\""

RECURSIVE JSONjoin(_)
JSONjoin(args) ==
    IF Len(args) = 0 THEN ""
    ELSE IF Len(args) = 1 THEN JSONelement(Head(args))
    ELSE JSONelement(Head(args)) \o "," \o JSONjoin(Tail(args))

\* JSON.stringify(arguments_), the custom cacheKey of the README and tests.
JSONstringify(args) == Str("[" \o JSONjoin(args) \o "]")

\* The results a target invocation can produce.
NoData == [kind |-> "none", id |-> 0]

Value(n) == [kind |-> "value", id |-> n]

Promise(n) == [kind |-> "promise", id |-> n]

\* The fixture of the tests, `index++`: invocation n returns n - 1.
JsValue(d) == d.id - 1

\* JavaScript truthiness of a result: 0 is falsy, a promise is an object.
Truthy(d) == d.kind = "promise" \/ (d.kind = "value" /\ JsValue(d) # 0)

\* ------------------------------------------------------------------ state

\* The plain functions that get memoized, and the names of the wrappers.
Targets == {"f"}

WrapperIds == {"w1"}

VARIABLES
    now,             \* Date.now()
    index,           \* number of invocations of the target so far
    wrapped,         \* wrapper -> the closure of `memoized` (fn and options)
    cacheStore,      \* WeakMap: memoized function -> its cache
    caches,          \* cache -> (key -> {data, maxAge}), a Map
    cacheTimerStore, \* WeakMap: function -> Set of timer ids
    timers,          \* the host's pending setTimeout timers
    promises,        \* promise id -> "pending" | "fulfilled" | "rejected"
    handlers,        \* pending `.catch` reactions registered by memoized
    last,            \* what the last operation did and returned
    hist,            \* history: <<wrapper, key>> -> the latest entry stored
    decorators       \* decorated method -> closure of memoizeDecorator's getter

vars ==
    << now, index, wrapped, cacheStore, caches, cacheTimerStore, timers,
       promises, handlers, last, hist, decorators >>

\* The empty Map (also the empty WeakMap and the empty Set-valued table).
EmptyMap == [k \in {} |-> 0]

NoEntry == [data |-> NoData, maxAge |-> Num(0)]

\* The receiver of a plain call f(...): `this` is undefined in a module.
NoThis == "undefined"

\* last.applied lists the invocations `fn.apply(receiver, arguments)` that the
\* operation made, last.evaluated the argument lists it evaluated a maxAge
\* function with.
NoLast ==
    [ op |-> "none", fn |-> "", this |-> NoThis, args |-> <<>>, invoked |-> 0,
      applied |-> <<>>, evaluated |-> <<>>, ret |-> NoData, retFn |-> "",
      err |-> "", maxAge |-> NoMaxAge ]

\* Map.prototype.get / has / delete / set on the Map m.
Has(m, key) == key \in DOMAIN m

Get(m, key) == IF Has(m, key) THEN m[key] ELSE NoEntry

Delete(m, key) == [k \in DOMAIN m \ {key} |-> m[k]]

Set(m, key, item) == [k \in DOMAIN m \cup {key} |-> IF k = key THEN item ELSE m[k]]

\* m with key mapped to item, for the WeakMaps and the promise table too.
Put(m, key, item) == Set(m, key, item)

\* History of the entries: which result the latest miss for a key stored,
\* when, on which receiver, and how that entry left the store ("no" while
\* it is stored).
StoredBy(h, c, key, id, t, this) ==
    Put(h, <<c, key>>, [id |-> id, at |-> t, by |-> this, gone |-> "no"])

Stored(h, c, key, id, t) == StoredBy(h, c, key, id, t, NoThis)

Gone(h, c, keys, how) ==
    [x \in DOMAIN h |->
        IF x[1] = c /\ x[2] \in keys /\ h[x].gone = "no"
        THEN [h[x] EXCEPT !.gone = how] ELSE h[x]]

\* Module load: both registries are empty, nothing is wrapped yet.
Init ==
    /\ now = 0
    /\ index = 0
    /\ wrapped = EmptyMap
    /\ cacheStore = EmptyMap
    /\ caches = EmptyMap
    /\ cacheTimerStore = EmptyMap
    /\ timers = {}
    /\ promises = EmptyMap
    /\ handlers = {}
    /\ last = NoLast
    /\ hist = EmptyMap
    /\ decorators = EmptyMap

\* ------------------------------------------------- src/index.ts: memoize

\* The finite positive maxAge the wrappers of the model are created with.
MaxAgeMs == 2

maxSetIntervalValue == 2147483647

\* The options memoize is called with.
MaxAgeOptions ==
    { NoMaxAge, MaxAge(Num(0)), MaxAge(Num(MaxAgeMs)), MaxAge(Num(0 - 1)),
      MaxAge(POSITIVE_INFINITY) }

CacheKeyOptions == {"undefined", "JSON.stringify"}

\* The cache option: absent (new Map()), or a store without clear().
CacheOptions == {"Map", "custom"}

\* Mutant of CacheOf: the default store is created once and shared by all
\* wrappers.
CacheShared(w) == "w1"

\* The cache a wrapper gets: its own store, named after the wrapper.
CacheOf(w) == w

\* Mutant of ExceedsMax: the bound itself is rejected (`>=`).
ExceedsMaxOrEqual(maxAge) ==
    Less(Num(maxSetIntervalValue), maxAge.n) \/ maxAge.n = Num(maxSetIntervalValue)

\* `maxAge > maxSetIntervalValue`
ExceedsMax(maxAge) == Less(Num(maxSetIntervalValue), maxAge.n)

\* `maxAge < 0`
IsNegative(maxAge) == Less(maxAge.n, Num(0))

\* Mutant of MemoizeOutcome: no `maxAge === 0` early return.
MemoizeOutcomeNoBypass(maxAge) ==
    IF maxAge.t = "number" /\ (ExceedsMax(maxAge) \/ IsNegative(maxAge))
    THEN "TypeError"
    ELSE "memoized"

\* What memoize(fn, {cacheKey, cache, maxAge}) does: "fn" (returns the target
\* itself), "TypeError", or "memoized" (creates and registers a wrapper).
MemoizeOutcome(maxAge) ==
    IF maxAge.t = "number" /\ maxAge.n = Num(0) THEN "fn"
    ELSE IF maxAge.t = "number" /\ (ExceedsMax(maxAge) \/ IsNegative(maxAge))
         THEN "TypeError"
    ELSE "memoized"

memoize(w, fn, cacheKey, cache, maxAge) ==
    /\ w \notin DOMAIN wrapped
    /\ LET outcome == MemoizeOutcome(maxAge) IN
       /\ IF outcome = "memoized"
          THEN /\ wrapped' = Put(wrapped, w,
                      [fn |-> fn, cacheKey |-> cacheKey, maxAge |-> maxAge,
                       cachePromiseRejection |-> TRUE])
               /\ caches' = Put(caches, CacheOf(w),
                      [hasClear |-> cache = "Map", map |-> EmptyMap])
               /\ cacheStore' = Put(cacheStore, w, CacheOf(w))
          ELSE UNCHANGED << wrapped, caches, cacheStore >>
       /\ last' = [NoLast EXCEPT !.op = "memoize", !.fn = fn,
                      !.maxAge = maxAge,
                      !.retFn = IF outcome = "memoized" THEN w
                                ELSE IF outcome = "fn" THEN fn ELSE "",
                      !.err = IF outcome = "TypeError" THEN "TypeError" ELSE ""]
    /\ UNCHANGED << decorators, now, index, cacheTimerStore, timers, promises,
                    handlers, hist >>

\* ------------------------------------------------ src/index.ts: memoized

\* Mutant of DeriveKey: the key is the first argument whatever cacheKey is,
\* so argument lists that differ later share a key.
DeriveKeyByFirstArgument(cacheKey, args) ==
    IF Len(args) = 0 THEN Undefined ELSE args[1]

\* Mutant of DeriveKey: the default key serializes the whole argument list.
DeriveKeyFromAll(cacheKey, args) == JSONstringify(args)

\* Mutant of DeriveKey: a call without arguments gets a key of its own.
DeriveKeyOwnSlotForNoArgs(cacheKey, args) ==
    IF cacheKey # "undefined" THEN JSONstringify(args)
    ELSE IF Len(args) = 0 THEN Str("__defaultKey") ELSE args[1]

\* `cacheKey ? cacheKey(arguments_) : arguments_[0]`
DeriveKey(cacheKey, args) ==
    IF cacheKey # "undefined" THEN JSONstringify(args)
    ELSE IF Len(args) = 0 THEN Undefined ELSE args[1]

\* Mutant of KeyOfCall: the receiver is part of the key, as with
\* `JSON.stringify([this, ...arguments_])`.
KeyOfCallWithReceiver(cacheKey, this, args) ==
    Str(this \o JSONstringify(args).v)

\* The key of one call memoized.call(this, ...arguments_): it is derived
\* from arguments_ alone, `this` is not read.
KeyOfCall(cacheKey, this, args) == DeriveKey(cacheKey, args)

\* Mutant of IsHit: the test reads the cached data instead of the entry
\* (`if (cacheItem.data)`), so a cached 0 counts as a miss.
IsHitIfDataTruthy(map, key) == Has(map, key) /\ Truthy(map[key].data)

\* Mutant of IsHit: a promise counts as cached only once it has settled.
IsHitIfSettled(map, key) ==
    /\ Has(map, key)
    /\ map[key].data.kind = "promise" => promises[map[key].data.id] # "pending"

\* `if (cacheItem)`: Map.get gives undefined for a missing key and the
\* {data, maxAge} object, which is truthy, for a stored one.
IsHit(map, key) == Has(map, key)

\* Mutant of ExpiresAt: `Date.now() + (maxAge || 0)`, as setData of index.js
\* computes it, so an entry without maxAge gets the current time.
ExpiresAtOrNow(maxAge, t) ==
    IF maxAge.t = "number" /\ maxAge.n # Num(0) /\ ~maxAge.n.nan
    THEN Plus(Num(t), maxAge.n)
    ELSE Num(t)

\* `maxAge ? Date.now() + maxAge : Number.POSITIVE_INFINITY`
ExpiresAt(maxAge, t) ==
    IF maxAge.t = "number" /\ maxAge.n # Num(0) /\ ~maxAge.n.nan
    THEN Plus(Num(t), maxAge.n)
    ELSE POSITIVE_INFINITY

\* `typeof maxAge === 'number' && maxAge !== Number.POSITIVE_INFINITY`
SchedulesTimer(maxAge) == maxAge.t = "number" /\ maxAge.n # POSITIVE_INFINITY

\* The delay of `setTimeout(callback, maxAge)`: the host replaces a NaN delay
\* by 1 ms.
TimerDelay(maxAge) == IF maxAge.n.nan THEN Num(1) ELSE maxAge.n

\* What a target invocation can do: return a value, return a pending promise,
\* or throw.
Outcomes == {"value", "promise", "throw"}

\* A deterministic target without side effects: (...args) => args.length.
PureTargets == {"g"}

\* What the call g(...args) returns.
PureResult(args) == Value(Len(args) + 1)

\* The falsy values a target can return: undefined, null, 0, false and ''.
FalsyOutcomes == {"undefined", "null", "0", "false", "''"}

\* The result of a target that returns the falsy value o; 0 is the value the
\* fixture returns first.
FalsyResult(o) == IF o = "0" THEN Value(1) ELSE [kind |-> o, id |-> 0]

\* What `fn.apply(this, arguments_)` returns when it returns: the value of a
\* pure target, a falsy value, the fixture's next counter value or a new
\* promise.
TargetResult(fn, args, o) ==
    IF fn \in PureTargets THEN PureResult(args)
    ELSE IF o \in FalsyOutcomes THEN FalsyResult(o)
    ELSE IF o = "promise" THEN Promise(index + 1)
    ELSE Value(index + 1)

\* The function under which memoized files its timers: `cacheTimerStore.get(fn)`.
TimerOwner(w) == wrapped[w].fn

\* `cacheTimerStore.get(fn) ?? new Set()` / `?? []`
TimersOf(fn) == IF fn \in DOMAIN cacheTimerStore THEN cacheTimerStore[fn] ELSE {}

\* The entry memoized stores on a miss.
NewEntry(w, data) ==
    [data |-> data, maxAge |-> ExpiresAt(wrapped[w].maxAge, now)]

\* Mutant of StoreOnHit: a hit renews the expiry timestamp of the entry, so
\* the maxAge runs from the last access.
StoreOnHitRenewed(w, key) ==
    [caches EXCEPT ![CacheOf(w)].map[key].maxAge = ExpiresAt(wrapped[w].maxAge, now)]

\* The cache after the hit path of memoized(w) ran, `return cacheItem.data`:
\* as it was.
StoreOnHit(w, key) == caches

\* Mutant of StoreOnMiss: the entry is stored before the target's outcome is
\* known, so a throwing call leaves an entry behind.
StoreAlways(w, key, o, data) ==
    [caches EXCEPT ![CacheOf(w)].map = Set(@, key, NewEntry(w, data))]

\* The cache after the miss path of memoized(w) ran: the entry is stored
\* unless the target threw.
StoreOnMiss(w, key, o, data) ==
    IF o = "throw" THEN caches
    ELSE [caches EXCEPT ![CacheOf(w)].map = Set(@, key, NewEntry(w, data))]

\* Mutant of Applied: the target is applied to the wrapper instead of the
\* receiver of the call (`fn.apply(memoized, arguments_)`).
AppliedToWrapper(w, this, args) == [this |-> w, args |-> args]

\* `fn.apply(this, arguments_)`: the receiver and the arguments the target is
\* invoked with.
Applied(w, this, args) == [this |-> this, args |-> args]

\* One call memoized.call(this, ...args) of the wrapper w; o is what the
\* target does if it gets invoked.
memoizedWithThis(w, this, args, o) ==
    LET key       == KeyOfCall(wrapped[w].cacheKey, this, args)
        map       == caches[CacheOf(w)].map
        cacheItem == Get(map, key)
        hit       == IsHit(map, key)
        data      == TargetResult(wrapped[w].fn, args, o)
        timer     == [id |-> index + 1, cache |-> CacheOf(w), key |-> key,
                      due |-> Plus(Num(now), TimerDelay(wrapped[w].maxAge))]
        seen      == [NoLast EXCEPT !.op = "call", !.fn = w, !.this = this,
                                    !.args = args]
    IN
    /\ w \in DOMAIN wrapped
    /\ IF hit
       THEN /\ last' = [seen EXCEPT !.ret = cacheItem.data]
            /\ caches' = StoreOnHit(w, key)
            /\ UNCHANGED << index, cacheTimerStore, timers, promises, hist >>
       ELSE /\ index < MaxCalls
            /\ index' = index + 1
            /\ caches' = StoreOnMiss(w, key, o, data)
            /\ hist' = IF o # "throw"
                       THEN StoredBy(hist, CacheOf(w), key, index + 1, now, this)
                       ELSE hist
            /\ promises' = IF o = "promise"
                           THEN Put(promises, index + 1, "pending")
                           ELSE promises
            /\ IF o # "throw" /\ SchedulesTimer(wrapped[w].maxAge)
               THEN /\ timers' = timers \cup {timer}
                    /\ cacheTimerStore' =
                         Put(cacheTimerStore, TimerOwner(w),
                             TimersOf(TimerOwner(w)) \cup {timer.id})
               ELSE UNCHANGED << timers, cacheTimerStore >>
            /\ last' = [seen EXCEPT !.invoked = 1,
                           !.applied = << Applied(w, this, args) >>,
                           !.ret = IF o = "throw" THEN NoData ELSE data,
                           !.err = IF o = "throw" THEN "target error" ELSE ""]
    /\ UNCHANGED << decorators, now, wrapped, cacheStore, handlers >>

\* One plain call memoized(...args) of the wrapper w.
memoized(w, args, o) == memoizedWithThis(w, NoThis, args, o)

\* The timer callback `() => { cache.delete(key); }`, run by the host once
\* the delay has elapsed (never earlier, possibly later).
TimerFire(t) ==
    /\ t \in timers
    /\ ~Less(Num(now), t.due)
    /\ caches' = [caches EXCEPT ![t.cache].map = Delete(@, t.key)]
    /\ timers' = timers \ {t}
    /\ hist' = Gone(hist, t.cache, {t.key}, "expired")
    /\ last' = NoLast
    /\ UNCHANGED << decorators, now, index, wrapped, cacheStore, cacheTimerStore,
                    promises, handlers >>

\* The clock advances by one millisecond.
Tick ==
    /\ now < MaxTime
    /\ now' = now + 1
    /\ last' = NoLast
    /\ UNCHANGED << decorators, index, wrapped, cacheStore, caches, cacheTimerStore, timers,
                    promises, handlers, hist >>

\* A pending promise returned by the target settles.
Settle(p, state) ==
    /\ p \in DOMAIN promises
    /\ promises[p] = "pending"
    /\ promises' = [promises EXCEPT ![p] = state]
    /\ last' = NoLast
    /\ UNCHANGED << decorators, now, index, wrapped, cacheStore, caches, cacheTimerStore,
                    timers, handlers, hist >>

\* --------------------------------------------- src/index.ts: memoizeClear

\* The timers `clearTimeout` is called on: `cacheTimerStore.get(fn) ?? []`.
ClearedTimers(fn) == { t \in timers : t.id \in TimersOf(fn) }

\* Mutant of ClearOutcome: a function that was not memoized is ignored
\* silently, as `mem.clear` of index.js does.
ClearOutcomeIgnoresUnknown(fn) ==
    IF fn \notin DOMAIN cacheStore THEN ""
    ELSE IF ~caches[cacheStore[fn]].hasClear THEN "cannot clear"
    ELSE "cleared"

\* Mutant of ClearOutcome: no `typeof cache.clear !== 'function'` check, the
\* store is emptied whatever it is.
ClearOutcomeIgnoresCapability(fn) ==
    IF fn \notin DOMAIN cacheStore THEN "not memoized" ELSE "cleared"

\* What memoizeClear(fn) does: one of the two TypeErrors, or "cleared".
ClearOutcome(fn) ==
    IF fn \notin DOMAIN cacheStore THEN "not memoized"
    ELSE IF ~caches[cacheStore[fn]].hasClear THEN "cannot clear"
    ELSE "cleared"

\* Mutant of Clear: clear() leaves the entries in place.
ClearNothing(map) == map

\* `cache.clear()`
Clear(map) == EmptyMap

memoizeClear(fn) ==
    /\ fn \in Targets \cup DOMAIN wrapped
    /\ IF ClearOutcome(fn) = "cleared"
       THEN /\ caches' = [caches EXCEPT ![cacheStore[fn]].map = Clear(@)]
            /\ timers' = timers \ ClearedTimers(fn)
            /\ hist' = Gone(hist, cacheStore[fn],
                            DOMAIN caches[cacheStore[fn]].map, "cleared")
       ELSE UNCHANGED << caches, timers, hist >>
    /\ last' = [NoLast EXCEPT !.op = "clear", !.fn = fn,
                   !.err = IF ClearOutcome(fn) = "cleared" THEN ""
                           ELSE ClearOutcome(fn)]
    /\ UNCHANGED << decorators, now, index, wrapped, cacheStore, cacheTimerStore,
                    promises, handlers >>

\* ------------------------------------------------------------ specification

\* What a synchronous target does when invoked.
SyncOutcomes == {"value", "throw"}

\* src/index.ts with a synchronous target, under every option.
Next ==
    \/ \E w \in WrapperIds, fn \in Targets, cacheKey \in CacheKeyOptions,
          cache \in CacheOptions, maxAge \in MaxAgeOptions :
          memoize(w, fn, cacheKey, cache, maxAge)
    \/ \E w \in WrapperIds, args \in ArgLists, o \in SyncOutcomes :
          memoized(w, args, o)
    \/ \E fn \in Targets \cup WrapperIds : memoizeClear(fn)
    \/ \E t \in timers : TimerFire(t)
    \/ Tick

Spec == Init /\ [][Next]_vars

\* src/index.ts with an async target (every invocation returns a fresh
\* pending promise), default cacheKey and default cache.
NextAsync ==
    \/ \E w \in WrapperIds, fn \in Targets,
          maxAge \in {NoMaxAge, MaxAge(Num(MaxAgeMs))} :
          memoize(w, fn, "undefined", "Map", maxAge)
    \/ \E w \in WrapperIds, args \in ArgLists : memoized(w, args, "promise")
    \/ \E w \in WrapperIds : memoizeClear(w)
    \/ \E t \in timers : TimerFire(t)
    \/ Tick
    \/ \E p \in DOMAIN promises, state \in {"fulfilled", "rejected"} :
          Settle(p, state)

SpecAsync == Init /\ [][NextAsync]_vars

\* ------------------------------------- src/index.ts: wrap-time validation

\* 2_147_483_648, one more than maxSetIntervalValue.
OverMax == Plus(Num(maxSetIntervalValue), Num(1))

\* The fixed maxAge values memoize is given: absent, 0, a small delay, the
\* largest accepted delay, one more than that, a negative number, Infinity
\* and NaN.
WrapMaxAgeOptions ==
    { NoMaxAge, MaxAge(Num(0)), MaxAge(Num(MaxAgeMs)),
      MaxAge(Num(maxSetIntervalValue)), MaxAge(OverMax), MaxAge(Num(0 - 1)),
      MaxAge(POSITIVE_INFINITY), MaxAge(NaN) }

\* A direct call fn(...args) of the target: what a call of the function
\* memoize returned is when memoize returned fn itself (`return fn`).
callTarget(fn, args, o) ==
    /\ fn \in Targets
    /\ index < MaxCalls
    /\ index' = index + 1
    /\ last' = [NoLast EXCEPT !.op = "call", !.fn = fn, !.args = args,
                   !.invoked = 1,
                   !.ret = IF o = "throw" THEN NoData ELSE Value(index + 1),
                   !.err = IF o = "throw" THEN "target error" ELSE ""]
    /\ UNCHANGED << decorators, now, wrapped, cacheStore, caches, cacheTimerStore, timers,
                    promises, handlers, hist >>

\* The argument lists of the wrap-time specification.
WrapArgLists == { <<>>, <<Str("foo")>> }

\* src/index.ts with one wrapper, the default cacheKey and cache, every
\* kind of fixed maxAge, and direct calls of the target.
NextWrap ==
    \/ \E w \in WrapperIds, fn \in Targets, maxAge \in WrapMaxAgeOptions :
          memoize(w, fn, "undefined", "Map", maxAge)
    \/ \E w \in WrapperIds, args \in WrapArgLists, o \in SyncOutcomes :
          memoized(w, args, o)
    \/ \E fn \in Targets, args \in WrapArgLists, o \in SyncOutcomes :
          callTarget(fn, args, o)
    \/ \E fn \in Targets \cup WrapperIds : memoizeClear(fn)
    \/ \E t \in timers : TimerFire(t)
    \/ Tick

SpecWrap == Init /\ [][NextWrap]_vars

\* ------------------------------- src/index.ts: two wrappers of one target

\* The wrappers two memoize calls on the same target return.
TwoWrapperIds == {"w1", "w2"}

\* src/index.ts with two wrappers of the target f, each with the default
\* cacheKey and its default store, with or without a maxAge.
NextTwo ==
    \/ \E w \in TwoWrapperIds, fn \in Targets,
          maxAge \in {NoMaxAge, MaxAge(Num(MaxAgeMs))} :
          memoize(w, fn, "undefined", "Map", maxAge)
    \/ \E w \in TwoWrapperIds, args \in WrapArgLists :
          memoized(w, args, "value")
    \/ \E w \in TwoWrapperIds : memoizeClear(w)
    \/ \E t \in timers : TimerFire(t)
    \/ Tick

SpecTwo == Init /\ [][NextTwo]_vars

\* ------------------------------------------------------ src/index.js: mem

\* The uuid TypesMap holds for undefined (one random string per process).
UuidOfUndefined == "uuid-undefined"

\* `replacer`: JSON.stringify(arguments_, replacer) writes the uuid of
\* TypesMap for undefined, and a string as itself.
ReplacedElement(x) ==
    IF x.t = "undefined" THEN "\"" \o UuidOfUndefined \o "\""
    ELSE "\"" \o x.v \o "\""

RECURSIVE ReplacedJoin(_)
ReplacedJoin(args) ==
    IF Len(args) = 0 THEN ""
    ELSE IF Len(args) = 1 THEN ReplacedElement(Head(args))
    ELSE ReplacedElement(Head(args)) \o "," \o ReplacedJoin(Tail(args))

\* The default cacheKey of index.js: no argument gives '__defaultKey', one
\* primitive argument gives itself, anything else is serialized.
defaultCacheKey(args) ==
    IF Len(args) = 0 THEN Str("__defaultKey")
    ELSE IF Len(args) = 1 THEN args[1]
    ELSE Str("[" \o ReplacedJoin(args) \o "]")

\* mem(fn, {cache, cachePromiseRejection}) without maxAge: creates and
\* registers a wrapper.
mem(w, fn, cache, cachePromiseRejection) ==
    /\ w \notin DOMAIN wrapped
    /\ wrapped' = Put(wrapped, w,
           [fn |-> fn, cacheKey |-> "defaultCacheKey", maxAge |-> NoMaxAge,
            cachePromiseRejection |-> cachePromiseRejection])
    /\ caches' = Put(caches, CacheOf(w),
           [hasClear |-> cache = "Map", map |-> EmptyMap])
    /\ cacheStore' = Put(cacheStore, w, CacheOf(w))
    /\ last' = [NoLast EXCEPT !.op = "memoize", !.fn = fn, !.retFn = w]
    /\ UNCHANGED << decorators, now, index, cacheTimerStore, timers, promises, handlers,
                    hist >>

\* Mutant of RegistersCatch: the option is not consulted.
RegistersCatchAlways(w, data) == data.kind = "promise"

\* `isPromise(cacheItem) && options.cachePromiseRejection === false`
RegistersCatch(w, data) ==
    data.kind = "promise" /\ wrapped[w].cachePromiseRejection = FALSE

\* `setData(key, data)`: options.maxAge is 0 when the option is absent.
SetData(map, key, data) ==
    Set(map, key, [data |-> data, maxAge |-> Plus(Num(now), Num(0))])

\* One call memoized(...args) of the wrapper w of index.js.
memoizedJs(w, args, o) ==
    LET key  == defaultCacheKey(args)
        map  == caches[CacheOf(w)].map
        data == IF o = "promise" THEN Promise(index + 1) ELSE Value(index + 1)
        seen == [NoLast EXCEPT !.op = "call", !.fn = w, !.args = args]
    IN
    /\ w \in DOMAIN wrapped
    /\ IF Has(map, key)
       THEN /\ last' = [seen EXCEPT !.ret = Get(map, key).data]
            /\ UNCHANGED << index, caches, promises, handlers, hist >>
       ELSE /\ index < MaxCalls
            /\ index' = index + 1
            /\ IF o = "throw"
               THEN /\ last' = [seen EXCEPT !.invoked = 1, !.err = "target error"]
                    /\ UNCHANGED << caches, promises, handlers, hist >>
               ELSE /\ caches' = [caches EXCEPT
                                    ![CacheOf(w)].map = SetData(@, key, data)]
                    /\ hist' = Stored(hist, CacheOf(w), key, index + 1, now)
                    /\ promises' = IF o = "promise"
                                   THEN Put(promises, index + 1, "pending")
                                   ELSE promises
                    /\ handlers' = IF RegistersCatch(w, data)
                                   THEN handlers \cup
                                        {[p |-> index + 1, cache |-> CacheOf(w),
                                          key |-> key]}
                                   ELSE handlers
                    /\ last' = [seen EXCEPT !.invoked = 1, !.ret = data]
    /\ UNCHANGED << decorators, now, wrapped, cacheStore, cacheTimerStore, timers >>

\* The reaction `() => cache.delete(key)`, run as a microtask once the
\* promise it was registered on has rejected.
RunHandler(h) ==
    /\ h \in handlers
    /\ promises[h.p] = "rejected"
    /\ caches' = [caches EXCEPT ![h.cache].map = Delete(@, h.key)]
    /\ handlers' = handlers \ {h}
    /\ hist' = Gone(hist, h.cache, {h.key}, "evicted")
    /\ last' = NoLast
    /\ UNCHANGED << decorators, now, index, wrapped, cacheStore, cacheTimerStore, timers,
                    promises >>

\* `cache && typeof cache.clear === 'function'`
ClearsJs(fn) == fn \in DOMAIN cacheStore /\ caches[cacheStore[fn]].hasClear

\* mem.clear(fn): clears the store when there is one to clear, and never
\* throws.
memClear(fn) ==
    /\ fn \in Targets \cup DOMAIN wrapped
    /\ IF ClearsJs(fn)
       THEN /\ caches' = [caches EXCEPT ![cacheStore[fn]].map = Clear(@)]
            /\ hist' = Gone(hist, cacheStore[fn],
                            DOMAIN caches[cacheStore[fn]].map, "cleared")
       ELSE UNCHANGED << caches, hist >>
    /\ last' = [NoLast EXCEPT !.op = "clear", !.fn = fn]
    /\ UNCHANGED << decorators, now, index, wrapped, cacheStore, cacheTimerStore, timers,
                    promises, handlers >>

\* The argument lists the wrappers of index.js are called with.
JsArgLists == { <<>>, <<Str("foo")>>, <<Str("foo"), Str("bar")>> }

NextJs ==
    \/ \E w \in WrapperIds, fn \in Targets, cache \in CacheOptions,
          cachePromiseRejection \in BOOLEAN :
          mem(w, fn, cache, cachePromiseRejection)
    \/ \E w \in WrapperIds, args \in JsArgLists, o \in Outcomes :
          memoizedJs(w, args, o)
    \/ \E fn \in Targets \cup WrapperIds : memClear(fn)
    \/ \E p \in DOMAIN promises, state \in {"fulfilled", "rejected"} :
          Settle(p, state)
    \/ \E h \in handlers : RunHandler(h)

SpecJs == Init /\ [][NextJs]_vars

\* --------------------------------------- src/index.ts: memoizeDecorator

\* The objects a decorated method is read from and called on.
Instances == {"alpha", "beta"}

\* The decorated methods (propertyKey).
DecoratedKeys == {"counter", "counter2"}

\* The decorator functions, each the result of one memoizeDecorator(options)
\* call.
DecoratorIds == {"decorator1", "decorator2"}

\* The body of a method: counter is the counting fixture, counter2 returns a
\* value that depends on nothing but the call.
MethodBody(d) == IF d = "counter" THEN "f" ELSE "g"

\* The order of the methods in the class body, which is the order their
\* decorators are applied in.
DeclaredBefore(d1, d2) == d1 = "counter" /\ d2 = "counter2"

\* The order the decorator functions are created in.
CreatedBefore(dec1, dec2) == dec1 = "decorator1" /\ dec2 = "decorator2"

\* The maxAge a decorator is built with: absent and 0.
DecoratorMaxAgeOptions == {NoMaxAge, MaxAge(Num(0))}

\* Mutant of InstanceKey: the getter keeps one slot for the whole class.
InstanceKeyPerClass(this) == "prototype"

\* The key of `instanceMap.has(this)` / `instanceMap.set(this, value)`.
InstanceKey(this) == this

\* The name of the function `memoize(input, options)` creates when the getter
\* of the method d runs on the object this.
NewWrapper(d, this) == d \o "@" \o this

\* The decorator function that was applied to the method d.
DecoratorOf(d) ==
    CHOOSE dec \in DOMAIN decorators : d \in DOMAIN decorators[dec].inputs

\* The methods that have been decorated.
Decorated == UNION { DOMAIN decorators[dec].inputs : dec \in DOMAIN decorators }

\* memoizeDecorator(options): a new decorator function with its own, empty
\* instanceMap.
memoizeDecorator(dec, maxAge) ==
    /\ dec \notin DOMAIN decorators
    /\ \A other \in DecoratorIds : CreatedBefore(other, dec) => other \in DOMAIN decorators
    /\ decorators' = Put(decorators, dec,
           [maxAge |-> maxAge, instanceMap |-> EmptyMap, inputs |-> EmptyMap])
    /\ last' = [NoLast EXCEPT !.op = "memoizeDecorator", !.fn = dec,
                   !.maxAge = maxAge]
    /\ UNCHANGED << now, index, wrapped, cacheStore, caches, cacheTimerStore,
                    timers, promises, handlers, hist >>

\* The decorator function dec applied to the method d: it keeps the method's
\* body as `input` and installs the getter.
decorator(dec, d) ==
    /\ dec \in DOMAIN decorators
    /\ d \notin Decorated
    /\ \A other \in DecoratedKeys : DeclaredBefore(other, d) => other \in Decorated
    /\ decorators' = [decorators EXCEPT ![dec].inputs = Put(@, d, MethodBody(d))]
    /\ last' = [NoLast EXCEPT !.op = "decorate", !.fn = d]
    /\ UNCHANGED << now, index, wrapped, cacheStore, caches, cacheTimerStore,
                    timers, promises, handlers, hist >>

\* `descriptor.get`: reading the decorated method d from the object this.
get(d, this) ==
    /\ d \in Decorated
    /\ LET dec         == DecoratorOf(d)
           instanceMap == decorators[dec].instanceMap
           input       == decorators[dec].inputs[d]
           maxAge      == decorators[dec].maxAge
           w           == NewWrapper(d, this)
           outcome     == MemoizeOutcome(maxAge)
           value       == IF outcome = "memoized" THEN w ELSE input
           seen        == [NoLast EXCEPT !.op = "get", !.fn = d, !.this = this]
       IN
       IF Has(instanceMap, InstanceKey(this))
       THEN /\ last' = [seen EXCEPT !.retFn = instanceMap[InstanceKey(this)]]
            /\ UNCHANGED << wrapped, caches, cacheStore, decorators >>
       ELSE /\ IF outcome = "memoized"
               THEN /\ wrapped' = Put(wrapped, w,
                           [fn |-> input, cacheKey |-> "undefined",
                            maxAge |-> maxAge, cachePromiseRejection |-> TRUE])
                    /\ caches' = Put(caches, CacheOf(w),
                           [hasClear |-> TRUE, map |-> EmptyMap])
                    /\ cacheStore' = Put(cacheStore, w, CacheOf(w))
               ELSE UNCHANGED << wrapped, caches, cacheStore >>
            /\ IF outcome = "TypeError"
               THEN /\ last' = [seen EXCEPT !.err = "TypeError"]
                    /\ UNCHANGED decorators
               ELSE /\ last' = [seen EXCEPT !.retFn = value]
                    /\ decorators' = [decorators EXCEPT ![dec].instanceMap =
                                         Put(@, InstanceKey(this), value)]
    /\ UNCHANGED << now, index, cacheTimerStore, timers, promises, handlers,
                    hist >>

\* src/index.ts with two methods of one class, decorated by the same or by
\* different decorator functions, read from two objects; the function a
\* getter returned for an object is called on that object.
NextDecorator ==
    \/ \E dec \in DecoratorIds, maxAge \in DecoratorMaxAgeOptions :
          memoizeDecorator(dec, maxAge)
    \/ \E dec \in DecoratorIds, d \in DecoratedKeys : decorator(dec, d)
    \/ \E d \in DecoratedKeys, this \in Instances : get(d, this)
    \/ \E dec \in DOMAIN decorators, this \in Instances, args \in WrapArgLists :
          /\ Has(decorators[dec].instanceMap, this)
          /\ memoizedWithThis(decorators[dec].instanceMap[this], this, args,
                              "value")

SpecDecorator == Init /\ [][NextDecorator]_vars

\* ------------------- later design: memoizeIsCached and a maxAge function

\* `maxAge` given as a function of the call's arguments.
MaxAgeFunction == [t |-> "function", n |-> Num(0)]

\* What a maxAge function returns when it is evaluated: a negative number, 0
\* and two different delays.
ComputedMaxAges == { Num(0 - 1), Num(0), Num(1), Num(MaxAgeMs) }

\* A boolean result.
Boolean(b) == [kind |-> "boolean", id |-> IF b THEN 1 ELSE 0]

\* Mutant of DoNotCache: only a computed 0 disables caching.
DoNotCacheOnlyZero(m) == m = Num(0)

\* The computed maxAge that means "do not cache this result".
DoNotCache(m) == m = Num(0) \/ Less(m, Num(0))

\* The computed maxAge that is rejected: not a number, or more than the
\* largest timer delay without being Infinity.
InvalidComputed(m) ==
    m.nan \/ (m # POSITIVE_INFINITY /\ Less(Num(maxSetIntervalValue), m))

\* One call memoized(...args) of a wrapper w whose maxAge is a function; o is
\* what the target does if it gets invoked and m what the maxAge function
\* returns if it gets evaluated.
memoizedComputed(w, args, o, m) ==
    LET key       == DeriveKey(wrapped[w].cacheKey, args)
        map       == caches[CacheOf(w)].map
        cacheItem == Get(map, key)
        hit       == IsHit(map, key)
        data      == Value(index + 1)
        evaluates == o # "throw"
        stores    == evaluates /\ ~InvalidComputed(m) /\ ~DoNotCache(m)
        timer     == [id |-> index + 1, cache |-> CacheOf(w), key |-> key,
                      due |-> Plus(Num(now), m)]
        seen      == [NoLast EXCEPT !.op = "call", !.fn = w, !.args = args]
    IN
    /\ w \in DOMAIN wrapped
    /\ wrapped[w].maxAge.t = "function"
    /\ IF hit
       THEN /\ last' = [seen EXCEPT !.ret = cacheItem.data]
            /\ UNCHANGED << index, caches, cacheTimerStore, timers, hist >>
       ELSE /\ index < MaxCalls
            /\ index' = index + 1
            /\ caches' = IF stores
                         THEN [caches EXCEPT ![CacheOf(w)].map =
                                  Set(@, key, [data |-> data,
                                               maxAge |-> Plus(Num(now), m)])]
                         ELSE caches
            /\ hist' = IF stores
                       THEN Stored(hist, CacheOf(w), key, index + 1, now)
                       ELSE hist
            /\ IF stores /\ m # POSITIVE_INFINITY
               THEN /\ timers' = timers \cup {timer}
                    /\ cacheTimerStore' =
                         Put(cacheTimerStore, TimerOwner(w),
                             TimersOf(TimerOwner(w)) \cup {timer.id})
               ELSE UNCHANGED << timers, cacheTimerStore >>
            /\ last' = [seen EXCEPT
                           !.invoked = 1,
                           !.applied = << Applied(w, NoThis, args) >>,
                           !.evaluated = IF evaluates THEN << args >> ELSE <<>>,
                           !.maxAge = IF evaluates THEN MaxAge(m) ELSE NoMaxAge,
                           !.ret = IF evaluates /\ ~InvalidComputed(m)
                                   THEN data ELSE NoData,
                           !.err = IF o = "throw" THEN "target error"
                                   ELSE IF InvalidComputed(m) THEN "TypeError"
                                   ELSE ""]
    /\ UNCHANGED << decorators, now, wrapped, cacheStore, promises, handlers >>

\* An entry exists under key and its expiry lies in the future.
IsLive(map, key) == Has(map, key) /\ Less(Num(now), map[key].maxAge)

\* memoizeIsCached(fn, ...args): false for a function that is not registered;
\* otherwise the key is derived as the wrapper derives it, an expired entry
\* is evicted, and the result tells whether a live entry exists.
memoizeIsCached(fn, args) ==
    /\ fn \in Targets \cup DOMAIN wrapped
    /\ IF fn \notin DOMAIN cacheStore
       THEN /\ last' = [NoLast EXCEPT !.op = "isCached", !.fn = fn,
                           !.args = args, !.ret = Boolean(FALSE)]
            /\ UNCHANGED << caches, hist >>
       ELSE LET key  == DeriveKey(wrapped[fn].cacheKey, args)
                map  == caches[cacheStore[fn]].map
                live == IsLive(map, key)
            IN
            /\ last' = [NoLast EXCEPT !.op = "isCached", !.fn = fn,
                           !.args = args, !.ret = Boolean(live)]
            /\ IF Has(map, key) /\ ~live
               THEN /\ caches' = [caches EXCEPT ![cacheStore[fn]].map =
                                     Delete(@, key)]
                    /\ hist' = Gone(hist, cacheStore[fn], {key}, "expired")
               ELSE UNCHANGED << caches, hist >>
    /\ UNCHANGED << decorators, now, index, wrapped, cacheStore,
                    cacheTimerStore, timers, promises, handlers >>

\* The fixed maxAge options of the later design: absent, 0 and a delay.
LaterMaxAgeOptions == { NoMaxAge, MaxAge(Num(0)), MaxAge(Num(MaxAgeMs)) }

\* src/index.ts with a maxAge function.
NextComputed ==
    \/ \E w \in WrapperIds, fn \in Targets :
          memoize(w, fn, "undefined", "Map", MaxAgeFunction)
    \/ \E w \in WrapperIds, args \in WrapArgLists, o \in SyncOutcomes,
          m \in ComputedMaxAges :
          memoizedComputed(w, args, o, m)
    \/ \E w \in WrapperIds : memoizeClear(w)
    \/ \E t \in timers : TimerFire(t)
    \/ Tick

SpecComputed == Init /\ [][NextComputed]_vars

\* src/index.ts extended by memoizeIsCached.
NextLater ==
    \/ \E w \in WrapperIds, fn \in Targets, maxAge \in LaterMaxAgeOptions :
          memoize(w, fn, "undefined", "Map", maxAge)
    \/ \E w \in WrapperIds, args \in WrapArgLists, o \in SyncOutcomes :
          memoized(w, args, o)
    \/ \E fn \in Targets, args \in WrapArgLists, o \in SyncOutcomes :
          callTarget(fn, args, o)
    \/ \E fn \in Targets \cup WrapperIds, args \in WrapArgLists :
          memoizeIsCached(fn, args)
    \/ \E fn \in Targets \cup WrapperIds : memoizeClear(fn)
    \/ \E t \in timers : TimerFire(t)
    \/ Tick

SpecLater == Init /\ [][NextLater]_vars

\* ------------------------------- src/index.ts: a wrapper of a wrapper

\* The largest number of timers the host hands out.
MaxTimers == 3

\* The maxAge of the outer wrapper: two finite positive delays.
NestedMaxAgeOptions == { MaxAge(Num(1)), MaxAge(Num(MaxAgeMs)) }

\* The handle `setTimeout` returns: one that no timer filed so far has.
NewTimerId ==
    Cardinality(UNION { cacheTimerStore[f] : f \in DOMAIN cacheTimerStore }) + 1

\* One call memoized(...args) of a wrapper w whose fn is itself a wrapper:
\* on a miss `fn.apply(this, arguments_)` runs the inner wrapper, which hits
\* or misses on its own store, and the outer wrapper stores what it got.
memoizedNested(w, args) ==
    LET inner      == wrapped[w].fn
        key        == DeriveKey(wrapped[w].cacheKey, args)
        map        == caches[CacheOf(w)].map
        hit        == IsHit(map, key)
        innerKey   == DeriveKey(wrapped[inner].cacheKey, args)
        innerMap   == caches[CacheOf(inner)].map
        innerHit   == IsHit(innerMap, innerKey)
        innerTimes == SchedulesTimer(wrapped[inner].maxAge) /\ ~innerHit
        data       == IF innerHit THEN innerMap[innerKey].data
                      ELSE Value(index + 1)
        innerTimer == [id |-> NewTimerId, cache |-> CacheOf(inner),
                       key |-> innerKey,
                       due |-> Plus(Num(now), TimerDelay(wrapped[inner].maxAge))]
        timer      == [id |-> IF innerTimes THEN NewTimerId + 1 ELSE NewTimerId,
                       cache |-> CacheOf(w), key |-> key,
                       due |-> Plus(Num(now), TimerDelay(wrapped[w].maxAge))]
        afterInner == IF innerHit THEN caches
                      ELSE [caches EXCEPT ![CacheOf(inner)].map =
                               Set(@, innerKey, NewEntry(inner, data))]
        histInner  == IF innerHit THEN hist
                      ELSE Stored(hist, CacheOf(inner), innerKey, index + 1, now)
        filedInner == IF innerTimes
                      THEN Put(cacheTimerStore, TimerOwner(inner),
                               TimersOf(TimerOwner(inner)) \cup {innerTimer.id})
                      ELSE cacheTimerStore
        ownTimers  == IF TimerOwner(w) \in DOMAIN filedInner
                      THEN filedInner[TimerOwner(w)] ELSE {}
        seen       == [NoLast EXCEPT !.op = "call", !.fn = w, !.args = args]
    IN
    /\ w \in DOMAIN wrapped
    /\ inner \in DOMAIN wrapped
    /\ IF hit
       THEN /\ last' = [seen EXCEPT !.ret = map[key].data]
            /\ UNCHANGED << index, caches, cacheTimerStore, timers, hist >>
       ELSE /\ innerHit \/ index < MaxCalls
            /\ index' = IF innerHit THEN index ELSE index + 1
            /\ caches' = [afterInner EXCEPT ![CacheOf(w)].map =
                             Set(@, key, NewEntry(w, data))]
            /\ hist' = Stored(histInner, CacheOf(w), key, data.id, now)
            /\ IF SchedulesTimer(wrapped[w].maxAge)
               THEN /\ timer.id <= MaxTimers
                    /\ timers' = timers \cup {timer}
                                 \cup (IF innerTimes THEN {innerTimer} ELSE {})
                    /\ cacheTimerStore' =
                         Put(filedInner, TimerOwner(w), ownTimers \cup {timer.id})
               ELSE /\ timers' = timers
                                 \cup (IF innerTimes THEN {innerTimer} ELSE {})
                    /\ cacheTimerStore' = filedInner
            /\ last' = [seen EXCEPT !.invoked = IF innerHit THEN 0 ELSE 1,
                           !.applied = << Applied(w, NoThis, args) >>,
                           !.ret = data]
    /\ UNCHANGED << decorators, now, wrapped, cacheStore, promises, handlers >>

\* The store time up to which an entry of w expires within MaxTime.
ExpiresInTime(w) ==
    ~Less(Num(MaxTime), Plus(Num(now), TimerDelay(wrapped[w].maxAge)))

\* src/index.ts with w1 = memoize(f) and w2 = memoize(w1, {maxAge}).
NextNested ==
    \/ \E fn \in Targets : memoize("w1", fn, "undefined", "Map", NoMaxAge)
    \/ \E maxAge \in NestedMaxAgeOptions :
          /\ "w1" \in DOMAIN wrapped
          /\ memoize("w2", "w1", "undefined", "Map", maxAge)
    \/ \E args \in WrapArgLists : memoized("w1", args, "value")
    \/ \E args \in WrapArgLists :
          /\ "w2" \in DOMAIN wrapped
          /\ ExpiresInTime("w2")
          /\ memoizedNested("w2", args)
    \/ \E w \in TwoWrapperIds : memoizeClear(w)
    \/ \E t \in timers : TimerFire(t)
    \/ Tick

\* The host runs a timer whose delay has elapsed, and time passes.
SpecNested ==
    /\ Init
    /\ [][NextNested]_vars
    /\ WF_vars(Tick)
    /\ WF_vars(\E t \in timers : TimerFire(t))

\* ------------------- src/index.ts: a pure target and an injective cacheKey

\* src/index.ts wrapping the pure target g with `cacheKey: JSON.stringify`,
\* which gives different argument lists different keys.
NextPure ==
    \/ \E w \in WrapperIds, fn \in PureTargets, cache \in CacheOptions,
          maxAge \in {NoMaxAge, MaxAge(Num(MaxAgeMs))} :
          memoize(w, fn, "JSON.stringify", cache, maxAge)
    \/ \E w \in WrapperIds, args \in ArgLists : memoized(w, args, "value")
    \/ \E w \in WrapperIds : memoizeClear(w)
    \/ \E t \in timers : TimerFire(t)
    \/ Tick

SpecPure == Init /\ [][NextPure]_vars

\* ------------------------------ src/index.ts: targets returning falsy values

\* src/index.ts with a target that returns undefined, null, 0, false or ''.
NextFalsy ==
    \/ \E w \in WrapperIds, fn \in Targets,
          maxAge \in {NoMaxAge, MaxAge(Num(MaxAgeMs))} :
          memoize(w, fn, "undefined", "Map", maxAge)
    \/ \E w \in WrapperIds, args \in WrapArgLists, o \in FalsyOutcomes :
          memoized(w, args, o)
    \/ \E w \in WrapperIds : memoizeClear(w)
    \/ \E t \in timers : TimerFire(t)
    \/ Tick

SpecFalsy == Init /\ [][NextFalsy]_vars

\* ------------------------- src/index.ts: one wrapper shared by several objects

\* The objects a wrapper installed on a prototype is called on.
Receivers == {"unicorn1", "unicorn2"}

\* src/index.ts with `Unicorn.prototype.foo = memoize(Unicorn.prototype.foo)`
\* and foo called on several Unicorn objects.
NextPrototype ==
    \/ \E w \in WrapperIds, fn \in Targets,
          maxAge \in {NoMaxAge, MaxAge(Num(MaxAgeMs))} :
          memoize(w, fn, "undefined", "Map", maxAge)
    \/ \E w \in WrapperIds, this \in Receivers, args \in WrapArgLists :
          memoizedWithThis(w, this, args, "value")
    \/ \E w \in WrapperIds : memoizeClear(w)
    \/ \E t \in timers : TimerFire(t)
    \/ Tick

SpecPrototype == Init /\ [][NextPrototype]_vars

\* -------------------------------------------------------------- properties

\* The store of the wrapper w and the key a call w(...args) derives
\* (index.ts wrappers).
MapOf(w) == caches[CacheOf(w)].map

KeyOf(w, args) == DeriveKey(wrapped[w].cacheKey, args)

\* The first argument of an argument list (undefined when there is none).
First(args) == IF Len(args) = 0 THEN Undefined ELSE args[1]

\* The history of the key a call w(...args) derives, if any entry was ever
\* stored for it.
HistOf(w, key) == {x \in DOMAIN hist : x = <<CacheOf(w), key>>}

\* C1: while an entry for key k is stored (between the miss that stored it
\* and its clear or expiration), every call deriving k returns the stored
\* result object and neither invokes the target nor changes the store.
C1_HitReturnsStoredResult ==
    [][ (last'.op = "call"
          /\ Has(MapOf(last'.fn), KeyOf(last'.fn, last'.args)))
        => /\ last'.ret = MapOf(last'.fn)[KeyOf(last'.fn, last'.args)].data
           /\ last'.invoked = 0
           /\ index' = index
           /\ caches' = caches ]_vars

\* C1 witness: a call was a hit on the cached falsy value 0.
C1_Witness ==
    /\ last.op = "call"
    /\ last.invoked = 0
    /\ last.ret = Value(1)
    /\ JsValue(last.ret) = 0

\* C2 as stated: a call whose key has a still-pending promise from an earlier
\* invocation returns that promise and does not invoke the target.
C2_PendingPromiseAlwaysShared ==
    [][ last'.op = "call"
        => \A x \in HistOf(last'.fn, KeyOf(last'.fn, last'.args)) :
              (hist[x].id \in DOMAIN promises
                 /\ promises[hist[x].id] = "pending")
              => /\ last'.ret = Promise(hist[x].id)
                 /\ index' = index ]_vars

\* C2 amended: a call whose key has a still-pending promise from the latest
\* invocation, whose entry was neither cleared nor expired since, returns
\* that promise and does not invoke the target.
C2_PendingPromiseSharedWhileStored ==
    [][ last'.op = "call"
        => \A x \in HistOf(last'.fn, KeyOf(last'.fn, last'.args)) :
              (hist[x].id \in DOMAIN promises
                 /\ promises[hist[x].id] = "pending"
                 /\ hist[x].gone = "no")
              => /\ last'.ret = Promise(hist[x].id)
                 /\ last'.invoked = 0
                 /\ index' = index ]_vars

\* C2 witness: a call was a hit on a promise that is still pending.
C2_Witness ==
    /\ last.op = "call"
    /\ last.invoked = 0
    /\ last.ret.kind = "promise"
    /\ promises[last.ret.id] = "pending"

\* C3: a call in which the target throws propagates the error, invokes the
\* target exactly once, leaves the store and the timers as they were with no
\* entry for the key, and the next call with the same key invokes the target
\* again.
C3_ThrowStoresNothing ==
    [][ /\ (last'.op = "call" /\ last'.err = "target error")
           => /\ index' = index + 1
              /\ last'.ret = NoData
              /\ caches' = caches
              /\ timers' = timers
              /\ cacheTimerStore' = cacheTimerStore
              /\ ~Has(caches'[CacheOf(last'.fn)].map,
                      KeyOf(last'.fn, last'.args))
        /\ (last.op = "call" /\ last.err = "target error"
              /\ last'.op = "call" /\ last'.fn = last.fn
              /\ KeyOf(last.fn, last'.args) = KeyOf(last.fn, last.args))
           => index' = index + 1 ]_vars

\* C3 witness: the target threw while the store held an entry and a timer
\* was pending.
C3_Witness ==
    /\ last.op = "call"
    /\ last.err = "target error"
    /\ MapOf(last.fn) # EmptyMap
    /\ timers # {}

\* C4: with a finite maxAge m > 0, a call for key k made less than m ms after
\* the miss that stored k's entry, with no memoizeClear in between, returns
\* the cached value without invoking the target.
C4_CachedUntilMaxAge ==
    [][ (last'.op = "call" /\ SchedulesTimer(wrapped[last'.fn].maxAge))
        => \A x \in HistOf(last'.fn, KeyOf(last'.fn, last'.args)) :
              (hist[x].gone # "cleared"
                 /\ Less(Num(now), Plus(Num(hist[x].at),
                                         wrapped[last'.fn].maxAge.n)))
              => /\ last'.ret = Value(hist[x].id)
                 /\ index' = index ]_vars

\* C5: a call never returns the data of an entry whose stored expiry
\* timestamp is not later than the current time.
C5_NeverReturnsExpired ==
    (last.op = "call" /\ last.invoked = 0)
    => Less(Num(now), MapOf(last.fn)[KeyOf(last.fn, last.args)].maxAge)

\* C6: a successful memoizeClear(w) leaves the store of w empty, and the call
\* to w right after it invokes the target and, when the target returns,
\* stores the new result under the key.
C6_ClearEmptiesStore ==
    [][ /\ (last'.op = "clear" /\ last'.err = "")
           => caches'[cacheStore[last'.fn]].map = EmptyMap
        /\ (last.op = "clear" /\ last.err = ""
              /\ last'.op = "call" /\ last'.fn = last.fn)
           => /\ index' = index + 1
              /\ last'.err = ""
                 => /\ Has(caches'[CacheOf(last.fn)].map,
                            KeyOf(last.fn, last'.args))
                    /\ caches'[CacheOf(last.fn)].map[
                            KeyOf(last.fn, last'.args)].data = last'.ret ]_vars

\* C6 witness: a memoizeClear returned successfully and removed an entry.
C6_Witness ==
    /\ last.op = "clear"
    /\ last.err = ""
    /\ \E x \in DOMAIN hist : hist[x].gone = "cleared"

\* C7: after memoizeClear(w) returns, no eviction timer scheduled by a call
\* to w is still pending.
C7_ClearCancelsTimers ==
    (last.op = "clear" /\ last.err = "")
    => {t \in timers : t.cache = cacheStore[last.fn]} = {}

C9_RejectionStaysCached ==
    [][ (last'.op = "call" /\ wrapped[last'.fn].cachePromiseRejection)
        => \A x \in HistOf(last'.fn, defaultCacheKey(last'.args)) :
              (hist[x].id \in DOMAIN promises
                 /\ promises[hist[x].id] = "rejected"
                 /\ hist[x].gone # "cleared")
              => /\ last'.ret = Promise(hist[x].id)
                 /\ last'.invoked = 0
                 /\ index' = index ]_vars

\* C9 witness: with cachePromiseRejection true a call was a hit on a
\* rejected promise.
C9_Witness ==
    /\ last.op = "call"
    /\ wrapped[last.fn].cachePromiseRejection
    /\ last.invoked = 0
    /\ last.ret.kind = "promise"
    /\ promises[last.ret.id] = "rejected"

\* C10: of two consecutive calls to one wrapper the second returns the first
\* one's result without invoking the target exactly when, with the default
\* key, their first arguments are the same value and, with cacheKey
\* JSON.stringify, their serialized argument lists are equal (so ('foo') and
\* ('foo', 'bar') are shared by default and separate with JSON.stringify).
C10_SharedExactlyOnEqualKeys ==
    [][ (last.op = "call" /\ last.err = ""
           /\ last'.op = "call" /\ last'.fn = last.fn)
        => LET shared == last'.ret = last.ret /\ index' = index
               custom == wrapped[last.fn].cacheKey # "undefined"
           IN /\ ~custom => (shared <=> First(last'.args) = First(last.args))
              /\ custom => (shared <=> JSONstringify(last'.args)
                                         = JSONstringify(last.args))
              /\ (custom /\ First(last'.args) = Str("foo")
                    /\ First(last.args) = Str("foo"))
                 => (shared <=> Len(last'.args) = Len(last.args)) ]_vars

\* C10 witness: with the default key a call with ('foo', 'bar') was a hit.
C10_Witness ==
    /\ last.op = "call"
    /\ wrapped[last.fn].cacheKey = "undefined"
    /\ last.args = <<Str("foo"), Str("bar")>>
    /\ last.invoked = 0


\* C11: with the default key a call with no arguments and a call with the
\* single argument undefined use the one slot keyed undefined: each stores
\* its result there on a miss, and each is a hit returning what the slot
\* holds, whichever of the two stored it.
C11_NoArgsShareUndefinedSlot ==
    [][ (last'.op = "call"
           /\ wrapped[last'.fn].cacheKey = "undefined"
           /\ last'.args \in {<<>>, <<Undefined>>})
        => /\ Has(MapOf(last'.fn), Undefined)
              => /\ last'.ret = MapOf(last'.fn)[Undefined].data
                 /\ index' = index
           /\ last'.err = ""
              => /\ Has(caches'[CacheOf(last'.fn)].map, Undefined)
                 /\ caches'[CacheOf(last'.fn)].map[Undefined].data = last'.ret
                 /\ DOMAIN caches'[CacheOf(last'.fn)].map
                      = DOMAIN MapOf(last'.fn) \cup {Undefined} ]_vars

\* C11 witness: memoized(undefined) was a hit while the slot keyed undefined
\* was the only entry of the store.
C11_Witness ==
    /\ last.op = "call"
    /\ wrapped[last.fn].cacheKey = "undefined"
    /\ last.args = <<Undefined>>
    /\ last.invoked = 0
    /\ DOMAIN MapOf(last.fn) = {Undefined}


\* C12: memoize with the fixed maxAge 0 returns the target itself and
\* creates no wrapper, store or registry entry; every call of that function
\* invokes the target exactly once, returns its fresh result and leaves all
\* stores and timers as they were; the function is never registered.
C12_ZeroMaxAgeBypassesCache ==
    [][ /\ (last'.op = "memoize" /\ last'.maxAge = MaxAge(Num(0)))
           => /\ last'.err = ""
              /\ last'.retFn = last'.fn
              /\ wrapped' = wrapped
              /\ caches' = caches
              /\ cacheStore' = cacheStore
              /\ index' = index
        /\ (last'.op = "call" /\ last'.fn \in Targets)
           => /\ index' = index + 1
              /\ last'.invoked = 1
              /\ last'.err = "" => last'.ret = Value(index + 1)
              /\ caches' = caches
              /\ timers' = timers
              /\ cacheTimerStore' = cacheTimerStore
        /\ \A fn \in Targets : fn \notin DOMAIN cacheStore' ]_vars

\* C12 witness: memoize(f, {maxAge: 0}) returned f after two direct calls of
\* f had each invoked the target.
C12_Witness ==
    /\ last.op = "memoize"
    /\ last.maxAge = MaxAge(Num(0))
    /\ last.retFn = last.fn
    /\ index = 2
    /\ caches = EmptyMap
    /\ timers = {}


\* C13: memoizeClear(fn) raises the not-memoized TypeError exactly when fn
\* is not in the registry, and then changes no store and no timer.
C13_ClearOfUnmemoizedThrows ==
    [][ last'.op = "clear"
        => /\ last'.fn \notin DOMAIN cacheStore <=> last'.err = "not memoized"
           /\ last'.err = "not memoized"
              => /\ caches' = caches
                 /\ timers' = timers
                 /\ cacheTimerStore' = cacheTimerStore
                 /\ cacheStore' = cacheStore ]_vars

\* C13 witness: memoizeClear(f) on the plain target raised the error while a
\* wrapper of f had an entry stored and a timer pending.
C13_Witness ==
    /\ last.op = "clear"
    /\ last.fn \in Targets
    /\ last.err = "not memoized"
    /\ timers # {}
    /\ \E w \in DOMAIN wrapped : MapOf(w) # EmptyMap

\* C14: a wrapper whose store has no clear() stores on a miss and returns
\* the stored data on a hit; memoizeClear on it raises the cannot-clear
\* TypeError and leaves entries and timers unchanged, so that the call right
\* after it with a stored key is still a hit.
C14_UnclearableStoreKeepsEntries ==
    [][ /\ (last'.op = "call" /\ ~caches[CacheOf(last'.fn)].hasClear)
           => IF Has(MapOf(last'.fn), KeyOf(last'.fn, last'.args))
              THEN /\ index' = index
                   /\ last'.ret
                        = MapOf(last'.fn)[KeyOf(last'.fn, last'.args)].data
              ELSE last'.err = ""
                   => /\ Has(caches'[CacheOf(last'.fn)].map,
                              KeyOf(last'.fn, last'.args))
                      /\ caches'[CacheOf(last'.fn)].map[
                              KeyOf(last'.fn, last'.args)].data = last'.ret
        /\ (last'.op = "clear" /\ last'.fn \in DOMAIN cacheStore
              /\ ~caches[cacheStore[last'.fn]].hasClear)
           => /\ last'.err = "cannot clear"
              /\ caches' = caches
              /\ timers' = timers
              /\ cacheTimerStore' = cacheTimerStore
        /\ (last.op = "clear" /\ last.err = "cannot clear"
              /\ last'.op = "call" /\ last'.fn = last.fn
              /\ Has(MapOf(last.fn), KeyOf(last.fn, last'.args)))
           => /\ index' = index
              /\ last'.ret = MapOf(last.fn)[KeyOf(last.fn, last'.args)].data
      ]_vars

\* C14 witness: memoizeClear raised the cannot-clear error on a wrapper with
\* an entry stored and a timer pending.
C14_Witness ==
    /\ last.op = "clear"
    /\ last.err = "cannot clear"
    /\ MapOf(last.fn) # EmptyMap
    /\ timers # {}


C16_NaNMaxAgeRejected ==
    /\ (last.op = "memoize" /\ last.maxAge.t = "number" /\ last.maxAge.n.nan)
       => last.err = "TypeError"
    /\ \A w \in DOMAIN wrapped :
          (wrapped[w].maxAge.t = "number" /\ wrapped[w].maxAge.n.nan)
          => /\ MapOf(w) = EmptyMap
             /\ {t \in timers : t.cache = CacheOf(w)} = {}

\* C17: memoize with the fixed maxAge Infinity raises no error and returns
\* a registered wrapper.
C17_InfinityMaxAgeAccepted ==
    (last.op = "memoize" /\ last.maxAge = MaxAge(POSITIVE_INFINITY))
    => /\ last.err = ""
       /\ last.retFn \in DOMAIN cacheStore

\* C19: every function memoize returns is in the registry.
C19_ReturnedFunctionRegistered ==
    (last.op = "memoize" /\ last.err = "")
    => last.retFn \in DOMAIN cacheStore


\* C18: a call to one wrapper and a memoizeClear on one wrapper leave the
\* store of every other wrapper of the same target exactly as it was, so
\* neither turns a miss of the other into a hit or removes one of its
\* entries.
C18_WrappersShareNoEntries ==
    [][ \A w \in DOMAIN wrapped, v \in DOMAIN wrapped :
          (v # w /\ last'.fn = w /\ last'.op \in {"call", "clear"}
             /\ wrapped[v].fn = wrapped[w].fn)
          => caches'[cacheStore[v]].map = caches[cacheStore[v]].map ]_vars

\* C18 witness: a call to one wrapper was a miss for a key the other wrapper
\* of the same target has stored.
C18_Witness ==
    /\ last.op = "call"
    /\ last.invoked = 1
    /\ \E v \in DOMAIN wrapped :
          /\ v # last.fn
          /\ wrapped[v].fn = wrapped[last.fn].fn
          /\ Has(caches[cacheStore[v]].map, KeyOf(last.fn, last.args))
          /\ caches[cacheStore[v]].map[KeyOf(last.fn, last.args)].data
               # last.ret


\* C20: memoizeClear neither settles nor discards any promise, a settled
\* promise keeps its outcome for those who hold it, and the call right after
\* a successful clear starts a new invocation whose promise is a new one.
C20_ClearLeavesPendingPromises ==
    [][ /\ last'.op = "clear" => (promises' = promises /\ index' = index)
        /\ \A p \in DOMAIN promises :
              /\ p \in DOMAIN promises'
              /\ promises[p] # "pending" => promises'[p] = promises[p]
        /\ (last.op = "clear" /\ last.err = ""
              /\ last'.op = "call" /\ last'.fn = last.fn)
           => /\ index' = index + 1
              /\ last'.ret = Promise(index + 1)
              /\ last'.ret.id \notin DOMAIN promises ]_vars

\* C20 witness: memoizeClear has just removed the entry of a promise that
\* is still pending.
C20_Witness ==
    /\ last.op = "clear"
    /\ last.err = ""
    /\ \E x \in DOMAIN hist :
          /\ x[1] = cacheStore[last.fn]
          /\ hist[x].gone = "cleared"
          /\ hist[x].id \in DOMAIN promises
          /\ promises[hist[x].id] = "pending"

C22_IsCachedAgreesWithCall ==
    [][ (last'.op = "isCached" /\ last'.fn \in DOMAIN wrapped) =>
          /\ last'.ret = Boolean(IsHit(MapOf(last'.fn),
                                       KeyOf(last'.fn, last'.args)))
          /\ index' = index
          /\ caches' = caches ]_vars

\* C23: memoizeIsCached returns false and raises nothing for a function that
\* is not registered and for the function memoize returned for maxAge 0,
\* whatever was called before; memoizeClear raises for an unregistered
\* function.
C23_IsCachedFalseForUnwrapped ==
    [][ /\ (last'.op = "isCached"
              /\ (\/ last'.fn \notin DOMAIN cacheStore
                  \/ wrapped[last'.fn].maxAge = MaxAge(Num(0))))
           => (last'.ret = Boolean(FALSE) /\ last'.err = "")
        /\ (last'.op = "clear" /\ last'.fn \notin DOMAIN cacheStore)
           => last'.err = "not memoized"
        /\ (last'.op = "memoize" /\ last'.maxAge = MaxAge(Num(0)))
           => /\ last'.err = ""
              /\ \/ last'.retFn \notin DOMAIN cacheStore'
                 \/ wrapped'[last'.retFn].maxAge = MaxAge(Num(0)) ]_vars

\* C23 witness: memoizeIsCached answered false for the plain function, which
\* is also what memoize returns for maxAge 0, after that function had been
\* called.
C23_Witness ==
    /\ last.op = "isCached"
    /\ last.fn \in Targets
    /\ last.fn \notin DOMAIN cacheStore
    /\ last.ret = Boolean(FALSE)
    /\ last.err = ""
    /\ index > 0

\* C24: a maxAge function is evaluated exactly once on a miss whose target
\* returned, with the arguments of that call, and never on a hit or after a
\* throw; a positive result is the expiry and the timer delay of the entry of
\* that call only, 0 or a negative result returns the target's result and
\* stores nothing, so the key stays a miss.
C24_ComputedMaxAgePerMiss ==
    [][ (/\ last'.op = "call"
         /\ last'.fn \in DOMAIN wrapped
         /\ wrapped[last'.fn].maxAge.t = "function") =>
          LET w   == last'.fn
              key == KeyOf(w, last'.args)
              m   == last'.maxAge.n
              map == caches'[CacheOf(w)].map
          IN
          /\ last'.evaluated =
               IF last'.invoked = 1 /\ last'.err # "target error"
               THEN << last'.args >> ELSE <<>>
          /\ (last'.invoked = 1 /\ last'.err = "") =>
               /\ last'.ret = Value(index')
               /\ IF m = Num(0) \/ Less(m, Num(0))
                  THEN /\ caches' = caches
                       /\ timers' = timers
                       /\ ~Has(map, key)
                  ELSE /\ map = Set(MapOf(w), key,
                                    [data |-> last'.ret,
                                     maxAge |-> Plus(Num(now), m)])
                       /\ \E t \in timers' \ timers :
                            /\ timers' = timers \cup {t}
                            /\ t.key = key
                            /\ t.due = Plus(Num(now), m) ]_vars

\* C24 witness: a miss whose maxAge function returned a negative number
\* stored nothing, while an entry of an earlier miss, whose maxAge function
\* returned a delay, is in the store.
C24_Witness ==
    /\ last.op = "call"
    /\ last.fn \in DOMAIN wrapped
    /\ wrapped[last.fn].maxAge.t = "function"
    /\ last.invoked = 1
    /\ last.evaluated = << last.args >>
    /\ Less(last.maxAge.n, Num(0))
    /\ last.ret = Value(index)
    /\ ~Has(MapOf(last.fn), KeyOf(last.fn, last.args))
    /\ MapOf(last.fn) # EmptyMap

\* C25: a call that misses invokes the target exactly once, with the receiver
\* and the whole argument list of that call; a call that hits does not
\* invoke it.
C25_MissAppliesTargetOnce ==
    [][ (last'.op = "call" /\ last'.fn \in DOMAIN wrapped) =>
          IF IsHit(MapOf(last'.fn), KeyOf(last'.fn, last'.args))
          THEN /\ last'.invoked = 0
               /\ last'.applied = <<>>
               /\ index' = index
          ELSE /\ last'.invoked = 1
               /\ index' = index + 1
               /\ last'.applied =
                    << [this |-> last'.this, args |-> last'.args] >> ]_vars

\* C25 witness: a call on the object beta with an argument missed and the
\* target was applied to beta and that argument.
C25_Witness ==
    /\ last.op = "call"
    /\ last.fn \in DOMAIN wrapped
    /\ last.this = "beta"
    /\ last.args = << Str("foo") >>
    /\ last.invoked = 1
    /\ last.applied = << [this |-> "beta", args |-> << Str("foo") >>] >>

\* C26: an entry stored by a wrapper with a fixed finite positive maxAge is
\* eventually no longer in the store, whether or not it is requested again.
C26_EntryEventuallyRemoved ==
    \A w \in TwoWrapperIds, args \in WrapArgLists :
       (IF w \in DOMAIN wrapped
        THEN SchedulesTimer(wrapped[w].maxAge) /\ Has(MapOf(w), KeyOf(w, args))
        ELSE FALSE)
       ~> (IF w \in DOMAIN wrapped
           THEN ~Has(MapOf(w), KeyOf(w, args))
           ELSE TRUE)

\* C29: memoizeClear(w1) cancels no timer that a call to another wrapper
\* scheduled, a wrapper built on w1 included: every pending timer of an entry
\* in another store is still pending after the clear.
C29_ClearCancelsOwnTimersOnly ==
    [][ (last'.op = "clear" /\ last'.err = "") =>
          \A t \in timers :
             t.cache # cacheStore[last'.fn] => t \in timers' ]_vars

\* C28: a timer callback removes no entry before that entry's own maxAge has
\* elapsed: every entry that leaves a store in a step other than a clear has
\* an expiry that is not later than the current time.
C28_TimerRemovesOnlyDueEntry ==
    [][ last'.op # "clear" =>
          \A c \in DOMAIN caches :
             \A key \in DOMAIN caches[c].map :
                ~Has(caches'[c].map, key)
                => ~Less(Num(now), caches[c].map[key].maxAge) ]_vars

\* C30: the rejection handler of a promise removes only the entry that holds
\* that promise: an entry that leaves the store in a step other than a clear
\* holds the rejected promise whose handler ran in that step.
C30_RejectionEvictsOwnEntryOnly ==
    [][ last'.op # "clear" =>
          \A c \in DOMAIN caches :
             \A key \in DOMAIN caches[c].map :
                ~Has(caches'[c].map, key)
                => /\ caches[c].map[key].data.kind = "promise"
                   /\ promises[caches[c].map[key].data.id] = "rejected"
                   /\ \E h \in handlers \ handlers' :
                         h.p = caches[c].map[key].data.id ]_vars

\* C27: a wrapper of a deterministic target without side effects, with a key
\* deriver that gives different argument lists different keys, returns for
\* every argument list the value the direct call returns, whatever calls,
\* clears and expirations happened before.
C27_WrapperRefinesPureTarget ==
    [][ (/\ last'.op = "call"
         /\ last'.fn \in DOMAIN wrapped
         /\ wrapped[last'.fn].fn \in PureTargets)
        => (last'.err = "" /\ last'.ret = PureResult(last'.args)) ]_vars

\* C27 witness: a call was a hit and returned the direct call's value while
\* the store also holds the entry of another argument list with the same
\* first argument, after an entry had expired or been cleared.
C27_Witness ==
    /\ last.op = "call"
    /\ last.fn \in DOMAIN wrapped
    /\ wrapped[last.fn].fn \in PureTargets
    /\ last.invoked = 0
    /\ last.args = << Str("foo"), Str("bar") >>
    /\ last.ret = PureResult(last.args)
    /\ Has(MapOf(last.fn), KeyOf(last.fn, << Str("foo") >>))
    /\ \E x \in DOMAIN hist : hist[x].gone # "no"

\* C31: a call that finds an entry under its key leaves every store, that
\* entry's expiry timestamp included, the pending timers and the tracked
\* timer sets as they were.
C31_HitChangesNothing ==
    [][ (/\ last'.op = "call"
         /\ last'.fn \in DOMAIN wrapped
         /\ Has(MapOf(last'.fn), KeyOf(last'.fn, last'.args)))
        => /\ caches' = caches
           /\ timers' = timers
           /\ cacheTimerStore' = cacheTimerStore
           /\ index' = index ]_vars

\* C31 witness: a hit, some time after the miss that stored the entry, on an
\* entry with a finite expiry whose timer is still pending.
C31_Witness ==
    /\ last.op = "call"
    /\ last.fn \in DOMAIN wrapped
    /\ last.invoked = 0
    /\ LET key == KeyOf(last.fn, last.args) IN
       /\ Has(MapOf(last.fn), key)
       /\ MapOf(last.fn)[key].maxAge # POSITIVE_INFINITY
       /\ \E x \in HistOf(last.fn, key) : hist[x].at < now /\ hist[x].gone = "no"
       /\ \E t \in timers : t.cache = CacheOf(last.fn) /\ t.key = key

\* C32: every timer tracked for a function is still pending, and a function
\* never has more tracked timers than there are entries with a finite expiry
\* in the stores of the wrappers that file their timers under it.
C32_TrackedTimersArePending ==
    \A fn \in DOMAIN cacheTimerStore :
       LET filers == { w \in DOMAIN wrapped : TimerOwner(w) = fn }
           finite == { x \in UNION { { <<w, key>> : key \in DOMAIN MapOf(w) } :
                                      w \in filers } :
                         MapOf(x[1])[x[2]].maxAge # POSITIVE_INFINITY }
       IN
       /\ \A id \in cacheTimerStore[fn] : \E t \in timers : t.id = id
       /\ Cardinality(cacheTimerStore[fn]) <= Cardinality(finite)

\* C33: the entry a miss writes has the expiry timestamp now + maxAge when
\* the wrapper has a positive finite maxAge, and the timer scheduled for it
\* is due at that same instant; without maxAge the expiry is positive
\* infinity and no timer is scheduled.
C33_ExpiryIsStoreTimePlusMaxAge ==
    [][ (/\ last'.op = "call"
         /\ last'.fn \in DOMAIN wrapped
         /\ last'.invoked = 1
         /\ last'.err = "") =>
          LET w      == last'.fn
              key    == KeyOf(w, last'.args)
              maxAge == wrapped[w].maxAge
              item   == caches'[CacheOf(w)].map[key]
          IN
          /\ maxAge.t = "undefined" =>
               /\ item.maxAge = POSITIVE_INFINITY
               /\ timers' = timers
          /\ (/\ maxAge.t = "number"
              /\ Less(Num(0), maxAge.n)
              /\ maxAge.n # POSITIVE_INFINITY) =>
               /\ item.maxAge = Plus(Num(now), maxAge.n)
               /\ \E t \in timers' \ timers :
                    /\ timers' = timers \cup {t}
                    /\ t.cache = CacheOf(w)
                    /\ t.key = key
                    /\ t.due = item.maxAge ]_vars

\* C33 witness: a miss at a clock value above 0 stored an entry under the
\* largest accepted maxAge; its expiry and its timer's due time are the
\* clock value plus 2147483647.
C33_Witness ==
    /\ last.op = "call"
    /\ last.fn \in DOMAIN wrapped
    /\ last.invoked = 1
    /\ last.err = ""
    /\ now > 0
    /\ wrapped[last.fn].maxAge = MaxAge(Num(maxSetIntervalValue))
    /\ LET key == KeyOf(last.fn, last.args) IN
       /\ Has(MapOf(last.fn), key)
       /\ MapOf(last.fn)[key].maxAge = Plus(Num(now), Num(maxSetIntervalValue))
       /\ MapOf(last.fn)[key].maxAge.hi = 1
       /\ \E t \in timers : t.key = key /\ t.due = MapOf(last.fn)[key].maxAge

\* C34: a falsy result is cached like any other: the miss that got it stores
\* it, and a call that finds an entry under its key returns the entry's data
\* without invoking the target, whatever that data is.
C34_FalsyResultsAreCached ==
    [][ (last'.op = "call" /\ last'.fn \in DOMAIN wrapped) =>
          LET w   == last'.fn
              key == KeyOf(w, last'.args)
          IN
          IF Has(MapOf(w), key)
          THEN /\ last'.invoked = 0
               /\ index' = index
               /\ last'.ret = MapOf(w)[key].data
          ELSE /\ last'.invoked = 1
               /\ last'.err = "" =>
                    /\ Has(caches'[CacheOf(w)].map, key)
                    /\ caches'[CacheOf(w)].map[key].data = last'.ret ]_vars

\* C34 witness: a call returned a cached undefined without invoking the
\* target, while a cached 0 is stored under another key.
C34_Witness ==
    /\ last.op = "call"
    /\ last.fn \in DOMAIN wrapped
    /\ last.invoked = 0
    /\ last.ret = FalsyResult("undefined")
    /\ ~Truthy(last.ret)
    /\ \E key \in DOMAIN MapOf(last.fn) :
         MapOf(last.fn)[key].data = FalsyResult("0")

\* C35: on one instance every decorated method gets a wrapped function around
\* that method's own body, also when one decorator function decorates several
\* methods: reading a method never returns the wrapper built for another
\* method.
C35_MethodGetsOwnWrapper ==
    [][ (last'.op = "get" /\ last'.err = "") =>
            LET d     == last'.fn
                input == decorators[DecoratorOf(d)].inputs[d]
                value == last'.retFn
            IN
            IF value \in DOMAIN wrapped'
            THEN wrapped'[value].fn = input
            ELSE value = input ]_vars

\* C36: the receiver is not part of the cache key. A wrapper shared by
\* several receivers keeps one cache for all of them: when a call on one
\* receiver returned a result that is stored, the same call made next on
\* another receiver returns that result, invokes nothing and stores nothing.
C36_ReceiversShareOneCache ==
    [][ ( /\ last.op = "call" /\ last.err = ""
          /\ last'.op = "call"
          /\ last'.fn = last.fn
          /\ last'.args = last.args
          /\ last'.this # last.this
          /\ \E key \in DOMAIN MapOf(last.fn) :
                MapOf(last.fn)[key].data = last.ret )
        => /\ last'.invoked = 0
           /\ last'.applied = << >>
           /\ last'.ret = last.ret
           /\ caches' = caches ]_vars

\* C36 witness: a call on unicorn2 was answered, without an invocation, with
\* the result the target produced when it was applied to unicorn1.
C36_Witness ==
    /\ last.op = "call"
    /\ last.this = "unicorn2"
    /\ last.invoked = 0
    /\ last.fn \in DOMAIN wrapped
    /\ Has(MapOf(last.fn), KeyOf(last.fn, last.args))
    /\ MapOf(last.fn)[KeyOf(last.fn, last.args)].data = last.ret
    /\ \E x \in HistOf(last.fn, KeyOf(last.fn, last.args)) :
          /\ hist[x].gone = "no"
          /\ hist[x].by = "unicorn1"
          /\ last.ret = Value(hist[x].id)

====
